---- MODULE Spec2Model ----
(***************************************************************************)
(* Model of src/activate/etc_files/etc_tree.rs: the persistent tree of     *)
(* paths managed by system-manager (EtcTree), its registration, query,     *)
(* deactivation, reconciliation and persistence, driven by successive      *)
(* activation and deactivation runs over one state file.                   *)
(***************************************************************************)
EXTENDS Naturals, Sequences, FiniteSets, TLC

VARIABLES
    file,       \* the state file on disk: a file condition or a stored document
    pc,         \* position of the driver inside the current run
    old,        \* the tree from_file returned in this run (previous generation)
    new,        \* the tree built by register_managed_entry in this run
    declared,   \* the paths handed to register_managed_entry in this run
    lastReg,    \* Some([before, path]) of the latest register_managed_entry call
    queried,    \* Some([path, status, ok]) of the latest get_status call
    result,     \* Some(tree) / None returned by update_state or deactivate
    calls,      \* the delete_action invocations of this run, in order
    refuse,     \* the paths for which this run's delete_action returns false
    retry       \* paths whose delete_action returned false in the run that
                \* wrote the tree now on disk

vars == <<file, pc, old, new, declared, lastReg, queried, result, calls, refuse, retry>>

----------------------------------------------------------------------------
(* Bounds and input universes *)

\* registrations per run
MaxRegs == 2

\* path::Component::RootDir / path::MAIN_SEPARATOR_STR
RootDir == "/"

\* PathBuf values are modelled by their component sequences.
RootPath == <<RootDir>>

\* The normalized absolute paths a configuration may declare.
Declarable ==
    { <<RootDir, "foo">>,
      <<RootDir, "foo", "bar">>,
      <<RootDir, "foo", "baz">>,
      <<RootDir, "foo", "baz", "bar">>,
      <<RootDir, "foo2">> }

\* Iteration orders of im::HashMap (hash order is arbitrary): the keys are
\* visited in the order of one of these sequences.
Orders ==
    { <<"bar", "baz", "foo", "foo2">>,
      <<"foo2", "foo", "baz", "bar">> }

----------------------------------------------------------------------------
(* Option<T> *)

None == <<>>
Some(x) == <<x>>
IsSome(o) == o # <<>>
Unwrap(o) == o[1]

----------------------------------------------------------------------------
(* EtcFileStatus *)

Managed == "Managed"
Unmanaged == "Unmanaged"

\* enum EtcFileStatus
EtcFileStatus == {Managed, Unmanaged}

MergeTakesSelf(self, other) == self

MergeTakesOther(self, other) == other

MergeBothOnly(self, other) ==
    IF self = Managed /\ other = Managed THEN Managed ELSE Unmanaged

\* EtcFileStatus::merge
Merge(self, other) ==
    IF self = Unmanaged /\ other = Unmanaged THEN Unmanaged ELSE Managed

----------------------------------------------------------------------------
(* im::HashMap<String, EtcTree> as a function over its key set *)

EmptyMap == [k \in {} |-> {}]

Keys(map) == DOMAIN map

\* HashMap::insert
Insert(map, key, value) ==
    [k \in (DOMAIN map) \cup {key} |-> IF k = key THEN value ELSE map[k]]

\* HashMap::alter, given the Option the closure returned for map.get(key)
Alter(map, key, opt) ==
    IF IsSome(opt)
    THEN Insert(map, key, Unwrap(opt))
    ELSE [k \in (DOMAIN map) \ {key} |-> map[k]]

\* HashMap::get
Get(map, key) == IF key \in DOMAIN map THEN Some(map[key]) ELSE None

\* the keys of map in the iteration order ord
RECURSIVE KeysInOrder(_, _)
KeysInOrder(map, ord) ==
    IF ord = <<>> THEN <<>>
    ELSE IF Head(ord) \in DOMAIN map
         THEN <<Head(ord)>> \o KeysInOrder(map, Tail(ord))
         ELSE KeysInOrder(map, Tail(ord))

----------------------------------------------------------------------------
(* EtcTree: construction and query *)

\* EtcTree::with_status
WithStatus(path, status) ==
    [status |-> status, path |-> path, nested |-> EmptyMap]

\* EtcTree::new
New(path) == WithStatus(path, Unmanaged)

\* EtcTree::root_node
root_node == New(RootPath)

\* PathBuf::join: joining an absolute component replaces the path
Join(path, component) ==
    IF component = RootDir THEN <<RootDir>> ELSE Append(path, component)

\* get_status::go; ok is the debug_assert!(tree.path == path)
RECURSIVE GetStatusGo(_, _, _)
GetStatusGo(tree, components, path) ==
    IF components # <<>>
    THEN LET component == Head(components)
             rest == Tail(components)
         IN  IF component = RootDir
             THEN GetStatusGo(tree, rest, path)
             ELSE IF component \in Keys(tree.nested)
                  THEN GetStatusGo(tree.nested[component], rest, path)
                  ELSE [status |-> Unmanaged, ok |-> TRUE]
    ELSE [status |-> tree.status, ok |-> (tree.path = path)]

\* EtcTree::get_status
get_status(tree, path) == GetStatusGo(tree, path, path)

\* EtcTree::is_managed
is_managed(tree, path) == get_status(tree, path).status = Managed

AlwaysManaged(rest) == Managed

NeverManaged(rest) == Unmanaged

\* the status of a node register_managed_entry creates: Managed for the
\* final path entry (components.peek() is None), Unmanaged otherwise
NewEntryStatus(rest) ==
    IF rest = <<>> THEN Managed ELSE Unmanaged

AlwaysNewEntry(maybe_subtree, new_path, rest) ==
    WithStatus(new_path, NewEntryStatus(rest))

MarkExistingOnly(maybe_subtree, new_path, rest) ==
    IF IsSome(maybe_subtree)
    THEN [Unwrap(maybe_subtree) EXCEPT
              !.status = IF rest = <<>> THEN Managed ELSE @]
    ELSE New(new_path)

\* maybe_subtree.unwrap_or_else(|| EtcTree::with_status(new_path, ..)): an
\* existing child is taken as it is, a missing one is created
EntryOrNew(maybe_subtree, new_path, rest) ==
    IF IsSome(maybe_subtree)
    THEN Unwrap(maybe_subtree)
    ELSE WithStatus(new_path, NewEntryStatus(rest))

\* register_managed_entry::go
RECURSIVE RegisterGo(_, _, _)
RegisterGo(tree, components, path) ==
    IF components # <<>>
    THEN LET component == Head(components)
             rest == Tail(components)
         IN  IF component = RootDir
             THEN RegisterGo(tree, rest, Join(path, RootDir))
             ELSE LET new_path == Join(path, component)
                      subtree == EntryOrNew(Get(tree.nested, component),
                                            new_path, rest)
                  IN  [tree EXCEPT !.nested =
                          Alter(tree.nested, component,
                                Some(RegisterGo(subtree, rest, new_path)))]
    ELSE tree

\* EtcTree::register_managed_entry
register_managed_entry(tree, path) == RegisterGo(tree, path, <<>>)

----------------------------------------------------------------------------
(* Deactivation *)

\* The delete_action closure of a run: it reports the removal as done
\* unless the path is one of those the run cannot remove.
delete_action(rf, path, status) == path \notin rf

Invocation(tree) == [path |-> tree.path, status |-> tree.status]

FinishAskingEveryLeaf(new_tree, rf) ==
    IF Keys(new_tree.nested) = {}
    THEN [tree |-> IF delete_action(rf, new_tree.path, new_tree.status)
                   THEN None ELSE Some(new_tree),
          calls |-> <<Invocation(new_tree)>>]
    ELSE [tree |-> Some(new_tree), calls |-> <<>>]

FinishDroppingRefused(new_tree, rf) ==
    IF Keys(new_tree.nested) = {}
    THEN IF new_tree.status = Managed
         THEN [tree |-> None, calls |-> <<Invocation(new_tree)>>]
         ELSE [tree |-> None, calls |-> <<>>]
    ELSE [tree |-> Some(new_tree), calls |-> <<>>]

FinishKeepingEmptyDirs(new_tree, rf) ==
    IF Keys(new_tree.nested) = {} /\ new_tree.status = Managed
    THEN [tree |-> IF delete_action(rf, new_tree.path, new_tree.status)
                   THEN None ELSE Some(new_tree),
          calls |-> <<Invocation(new_tree)>>]
    ELSE [tree |-> Some(new_tree), calls |-> <<>>]

\* deactivate, after the fold: a node left without children is removed
\* when it is Unmanaged, and when it is Managed and delete_action agrees
DeactivateNode(new_tree, rf) ==
    IF Keys(new_tree.nested) = {}
    THEN IF new_tree.status = Managed
         THEN [tree |-> IF delete_action(rf, new_tree.path, new_tree.status)
                        THEN None ELSE Some(new_tree),
               calls |-> <<Invocation(new_tree)>>]
         ELSE [tree |-> None, calls |-> <<>>]
    ELSE [tree |-> Some(new_tree), calls |-> <<>>]

RECURSIVE deactivate(_, _, _)
RECURSIVE DeactivateFold(_, _, _, _)

RECURSIVE DeactivateFoldLastWins(_, _, _, _)
DeactivateFoldLastWins(acc, names, rf, ord) ==
    IF names = <<>> THEN acc
    ELSE LET name == Head(names)
             subtree == Get(acc.tree.nested, name)
             r == IF IsSome(subtree)
                  THEN deactivate(Unwrap(subtree), rf, ord)
                  ELSE [tree |-> None, calls |-> <<>>]
             altered == [acc.tree EXCEPT
                            !.nested = Alter(acc.tree.nested, name, r.tree)]
         IN  IF Tail(names) = <<>>
             THEN [tree |-> altered, calls |-> acc.calls \o r.calls]
             ELSE DeactivateFoldLastWins(
                      [tree |-> acc.tree, calls |-> acc.calls \o r.calls],
                      Tail(names), rf, ord)

\* deactivate, the fold over self.nested.keys(): every child is replaced
\* by its deactivation, or removed
DeactivateFold(acc, names, rf, ord) ==
    IF names = <<>> THEN acc
    ELSE LET name == Head(names)
             subtree == Get(acc.tree.nested, name)
             r == IF IsSome(subtree)
                  THEN deactivate(Unwrap(subtree), rf, ord)
                  ELSE [tree |-> None, calls |-> <<>>]
         IN  DeactivateFold(
                 [tree |-> [acc.tree EXCEPT
                               !.nested = Alter(acc.tree.nested, name, r.tree)],
                  calls |-> acc.calls \o r.calls],
                 Tail(names), rf, ord)

DeactivateTopDown(self, rf, ord) ==
    IF self.status = Managed /\ delete_action(rf, self.path, self.status)
    THEN [tree |-> None, calls |-> <<Invocation(self)>>]
    ELSE LET folded == DeactivateFold([tree |-> self, calls |-> <<>>],
                                      KeysInOrder(self.nested, ord), rf, ord)
             fin == DeactivateNode(folded.tree, rf)
         IN  [tree |-> fin.tree, calls |-> folded.calls \o fin.calls]

\* EtcTree::deactivate: the Option it returns and the delete_action
\* invocations it makes, in order
deactivate(self, rf, ord) ==
    LET folded == DeactivateFold([tree |-> self, calls |-> <<>>],
                                 KeysInOrder(self.nested, ord), rf, ord)
        fin == DeactivateNode(folded.tree, rf)
    IN  [tree |-> fin.tree, calls |-> folded.calls \o fin.calls]

----------------------------------------------------------------------------
(* Reconciliation *)

Restrict(map, keys) == [k \in keys |-> map[k]]

AllOfOther(self, other) == other.nested

\* other.nested.relative_complement(self.nested)
ToDeactivate(self, other) ==
    Restrict(other.nested, Keys(other.nested) \ Keys(self.nested))

NothingToMerge(self, other) == EmptyMap

\* other.nested.intersection(self.nested): the values are other's
ToMerge(self, other) ==
    Restrict(other.nested, Keys(other.nested) \cap Keys(self.nested))

\* update_state, the fold over to_deactivate: what survives the
\* deactivation of a dropped subtree is inserted into the new tree
RECURSIVE DroppedFold(_, _, _, _, _)
DroppedFold(acc, names, to_deactivate, rf, ord) ==
    IF names = <<>> THEN acc
    ELSE LET name == Head(names)
             r == deactivate(to_deactivate[name], rf, ord)
             nested == IF IsSome(r.tree)
                       THEN Insert(acc.tree.nested, name, Unwrap(r.tree))
                       ELSE acc.tree.nested
         IN  DroppedFold(
                 [tree |-> [acc.tree EXCEPT !.nested = nested],
                  calls |-> acc.calls \o r.calls],
                 Tail(names), to_deactivate, rf, ord)

\* the debug_assert of update_state: no dangling unmanaged node
NotDangling(merged) ==
    Keys(merged.nested) # {} \/ merged.status = Managed

RECURSIVE update_state(_, _, _, _)
RECURSIVE MergedFold(_, _, _, _, _)

\* update_state, the fold over to_merge: a child present in both trees is
\* replaced by its reconciliation, its status merged with the other side's
MergedFold(acc, names, to_merge, rf, ord) ==
    IF names = <<>> THEN acc
    ELSE LET name == Head(names)
             other_tree == to_merge[name]
             subtree == Get(acc.tree.nested, name)
             r == IF IsSome(subtree)
                  THEN update_state(Unwrap(subtree), other_tree, rf, ord)
                  ELSE [tree |-> None, calls |-> <<>>, ok |-> TRUE]
             mapped == IF IsSome(r.tree)
                       THEN Some([Unwrap(r.tree) EXCEPT
                                     !.status = Merge(@, other_tree.status)])
                       ELSE None
         IN  MergedFold(
                 [tree |-> [acc.tree EXCEPT
                               !.nested = Alter(acc.tree.nested, name, mapped)],
                  calls |-> acc.calls \o r.calls,
                  ok |-> acc.ok /\ r.ok],
                 Tail(names), to_merge, rf, ord)

\* EtcTree::update_state: the Option it returns, the delete_action
\* invocations it makes, and whether every debug_assert on the way held
update_state(self, other, rf, ord) ==
    LET to_deactivate == ToDeactivate(self, other)
        to_merge == ToMerge(self, other)
        deactivated ==
            DroppedFold([tree |-> self, calls |-> <<>>],
                        KeysInOrder(to_deactivate, ord), to_deactivate, rf, ord)
        merged ==
            MergedFold([tree |-> deactivated.tree,
                        calls |-> deactivated.calls, ok |-> TRUE],
                       KeysInOrder(to_merge, ord), to_merge, rf, ord)
    IN  [tree |-> Some(merged.tree),
         calls |-> merged.calls,
         ok |-> merged.ok /\ NotDangling(merged.tree)]

----------------------------------------------------------------------------
(* Persistence *)

\* #[serde(rename_all = "camelCase")] on EtcFileStatus
StatusTag(status) == IF status = Managed THEN "managed" ELSE "unmanaged"

TagStatus(tag) == IF tag = "managed" THEN Managed ELSE Unmanaged

\* a PathBuf written as a string: the separator and the names, in order
RECURSIVE PathString(_)
PathString(path) ==
    IF path = <<>> THEN <<>>
    ELSE IF Head(path) = RootDir THEN <<"/">> \o PathString(Tail(path))
    ELSE IF Tail(path) = <<>> THEN <<Head(path)>>
    ELSE <<Head(path), "/">> \o PathString(Tail(path))

\* the components of the path a string denotes
RECURSIVE StringPath(_, _)
StringPath(str, atStart) ==
    IF str = <<>> THEN <<>>
    ELSE IF Head(str) = "/"
         THEN (IF atStart THEN <<RootDir>> ELSE <<>>) \o StringPath(Tail(str), FALSE)
         ELSE <<Head(str)>> \o StringPath(Tail(str), FALSE)

\* serde_json::to_writer(writer, self)
RECURSIVE Serialize(_)
Serialize(tree) ==
    [status |-> StatusTag(tree.status),
     path |-> PathString(tree.path),
     nested |-> [k \in Keys(tree.nested) |-> Serialize(tree.nested[k])]]

\* serde_json::from_reader(reader), for a document that parses
RECURSIVE Deserialize(_)
Deserialize(doc) ==
    [status |-> TagStatus(doc.status),
     path |-> StringPath(doc.path, TRUE),
     nested |-> [k \in DOMAIN doc.nested |-> Deserialize(doc.nested[k])]]

\* The conditions of the state file that from_file tells apart: no regular
\* file there, a file that cannot be opened, a file whose read fails, a
\* file that does not parse, and a file holding a document.
NoFile == [kind |-> "missing", doc |-> None]
OpenDenied == [kind |-> "open_denied", doc |-> None]
ReadFails == [kind |-> "read_fails", doc |-> None]
Unparsable == [kind |-> "unparsable", doc |-> None]
Document(doc) == [kind |-> "document", doc |-> Some(doc)]

Ok(tree) == [err |-> FALSE, tree |-> Some(tree)]
Err == [err |-> TRUE, tree |-> None]

\* EtcTree::from_file
from_file(f) ==
    IF f.kind = "missing" THEN Ok(root_node)           \* !state_file.is_file()
    ELSE IF f.kind = "open_denied" THEN Err            \* fs::File::open(..)?
    ELSE IF f.kind = "document" THEN Ok(Deserialize(Unwrap(f.doc)))
    ELSE Ok(root_node)                                 \* Err(e) => logged

\* EtcTree::write_to_file, when it succeeds
write_to_file(tree) == Document(Serialize(tree))

----------------------------------------------------------------------------
(* The driver: successive runs over one state file *)

Init ==
    /\ file = NoFile
    /\ pc = "idle"
    /\ old = root_node
    /\ new = root_node
    /\ declared = {}
    /\ lastReg = None
    /\ queried = None
    /\ result = None
    /\ calls = <<>>
    /\ refuse = {}
    /\ retry = {}

\* the positions at which no run is under way
BetweenRuns ==
    {"idle", "persisted", "write_failed", "panicked", "load_failed", "deactivated"}

\* the paths of the nodes of a tree
RECURSIVE NodePaths(_)
NodePaths(tree) ==
    {tree.path} \cup UNION {NodePaths(tree.nested[k]) : k \in Keys(tree.nested)}

\* the paths of the Managed nodes of a tree
RECURSIVE ManagedPaths(_)
ManagedPaths(tree) ==
    (IF tree.status = Managed THEN {tree.path} ELSE {})
        \cup UNION {ManagedPaths(tree.nested[k]) : k \in Keys(tree.nested)}

\* the paths whose removal was refused in a sequence of invocations
Refused(cs, rf) == {cs[i].path : i \in {j \in DOMAIN cs : cs[j].path \in rf}}

\* A run starts by loading the previous generation.
FromFile ==
    /\ pc \in BetweenRuns
    /\ LET r == from_file(file)
       IN  /\ pc' = IF r.err THEN "load_failed" ELSE "build"
           /\ old' = IF r.err THEN root_node ELSE Unwrap(r.tree)
    /\ new' = root_node
    /\ declared' = {}
    /\ lastReg' = None
    /\ queried' = None
    /\ result' = None
    /\ calls' = <<>>
    /\ refuse' = {}
    /\ UNCHANGED <<file, retry>>

\* The new generation is built by registering each declared path.
Register(p) ==
    /\ pc = "build"
    /\ queried = None
    /\ Cardinality(declared \cup {p}) <= MaxRegs
    /\ new' = register_managed_entry(new, p)
    /\ declared' = declared \cup {p}
    /\ lastReg' = Some([before |-> new, path |-> p])
    /\ queried' = None
    /\ UNCHANGED <<file, pc, old, result, calls, refuse, retry>>

\* the paths get_status is asked about
Queryable == Declarable \cup { RootPath, <<RootDir, "foo", "nonexistent">> }

\* A query of the tree being built.
Query(p) ==
    /\ pc = "build"
    /\ queried = None
    /\ LET r == get_status(new, p)
       IN  queried' = Some([path |-> p, status |-> r.status, ok |-> r.ok])
    /\ UNCHANGED <<file, pc, old, new, declared, lastReg, result, calls, refuse, retry>>

\* The query returns and the driver goes on with the run.
QueryReturn ==
    /\ pc = "build"
    /\ queried # None
    /\ queried' = None
    /\ UNCHANGED <<file, pc, old, new, declared, lastReg, result, calls, refuse, retry>>

\* An activation run reconciles the new generation with the previous one.
\* A failed debug_assert aborts the run in a debug build and is compiled
\* out of a release build.
UpdateState(rf, ord) ==
    /\ pc = "build"
    /\ queried = None
    /\ LET r == update_state(new, old, rf, ord)
       IN  /\ calls' = r.calls
           /\ \/ /\ r.ok
                 /\ pc' = "reconciled"
                 /\ result' = r.tree
              \/ /\ ~r.ok
                 /\ pc' = "reconciled"
                 /\ result' = r.tree
              \/ /\ ~r.ok
                 /\ pc' = "panicked"
                 /\ result' = None
    /\ refuse' = rf
    /\ lastReg' = None
    /\ queried' = None
    /\ UNCHANGED <<file, old, new, declared, retry>>

\* The loaded tree is deactivated as a whole; what becomes of the Option is
\* the caller's business, and the state file is left as it is.
Deactivate(rf, ord) ==
    /\ pc = "build"
    /\ queried = None
    /\ lastReg = None
    /\ LET r == deactivate(old, rf, ord)
       IN  /\ calls' = r.calls
           /\ result' = r.tree
    /\ pc' = "deactivated"
    /\ refuse' = rf
    /\ queried' = None
    /\ UNCHANGED <<file, old, new, declared, lastReg, retry>>

\* An activation run ends by writing the reconciled tree.  fs::File::create
\* can fail and leave the file as it was; a write that fails after it
\* leaves a truncated file.
WriteToFile ==
    /\ pc = "reconciled"
    /\ \/ /\ file' = write_to_file(Unwrap(result))
          /\ pc' = "persisted"
          /\ retry' = Refused(calls, refuse)
       \/ /\ pc' = "write_failed"
          /\ UNCHANGED <<file, retry>>
       \/ /\ file' = Unparsable
          /\ pc' = "write_failed"
          /\ retry' = {}
    /\ old' = root_node
    /\ new' = root_node
    /\ declared' = {}
    /\ lastReg' = None
    /\ queried' = None
    /\ result' = None
    /\ calls' = <<>>
    /\ refuse' = {}

\* Between runs the state file can be removed or become unreadable.
FileLost(f) ==
    /\ pc \in BetweenRuns
    /\ file # f
    /\ file' = f
    /\ pc' = "idle"
    /\ old' = root_node
    /\ new' = root_node
    /\ declared' = {}
    /\ lastReg' = None
    /\ queried' = None
    /\ result' = None
    /\ calls' = <<>>
    /\ refuse' = {}
    /\ retry' = {}

\* the paths a run's delete_action may have to refuse: the Managed paths of
\* the previous generation that the new one no longer holds
Refusable == SUBSET (ManagedPaths(old) \ NodePaths(new))

Next ==
    \/ FromFile
    \/ \E p \in Declarable : Register(p)
    \/ \E p \in Queryable : Query(p)
    \/ QueryReturn
    \/ \E rf \in Refusable, ord \in Orders : UpdateState(rf, ord)
    \/ \E rf \in Refusable, ord \in Orders : Deactivate(rf, ord)
    \/ WriteToFile
    \/ \E f \in {NoFile, OpenDenied, ReadFails} : FileLost(f)

Spec == Init /\ [][Next]_vars

----------------------------------------------------------------------------
(* The operations applied in any order: new is the tree at hand, old a tree
   obtained earlier, result what the last operation returned *)

InitOps ==
    /\ file = NoFile
    /\ pc = "op_root_node"
    /\ old = root_node
    /\ new = root_node
    /\ declared = {}
    /\ lastReg = None
    /\ queried = None
    /\ result = Some(root_node)
    /\ calls = <<>>
    /\ refuse = {}
    /\ retry = {}

\* A fresh root replaces the tree at hand.
OpsRootNode ==
    /\ new' = root_node
    /\ result' = Some(root_node)
    /\ pc' = "op_root_node"
    /\ UNCHANGED <<file, old, declared, lastReg, queried, calls, refuse, retry>>

\* A path is registered in the tree at hand.
OpsRegister(p) ==
    /\ new' = register_managed_entry(new, p)
    /\ result' = Some(new')
    /\ pc' = "op_register"
    /\ UNCHANGED <<file, old, declared, lastReg, queried, calls, refuse, retry>>

\* The tree at hand is deactivated; when nothing is left of it the caller
\* goes on with a fresh root.
OpsDeactivate(rf, ord) ==
    /\ LET r == deactivate(new, rf, ord)
       IN  /\ result' = r.tree
           /\ new' = IF IsSome(r.tree) THEN Unwrap(r.tree) ELSE root_node
    /\ pc' = "op_deactivate"
    /\ UNCHANGED <<file, old, declared, lastReg, queried, calls, refuse, retry>>

\* The tree at hand is reconciled with the tree obtained earlier.  A failed
\* debug_assert leaves the caller of a debug build without a result.
OpsUpdateState(rf, ord) ==
    /\ LET r == update_state(new, old, rf, ord)
       IN  \/ /\ r.ok
              /\ result' = r.tree
              /\ new' = Unwrap(r.tree)
           \/ /\ ~r.ok
              /\ result' = r.tree
              /\ new' = Unwrap(r.tree)
           \/ /\ ~r.ok
              /\ result' = None
              /\ new' = new
    /\ pc' = "op_update_state"
    /\ UNCHANGED <<file, old, declared, lastReg, queried, calls, refuse, retry>>

\* The tree at hand is kept, to be reconciled against later.
OpsKeep ==
    /\ old # new
    /\ old' = new
    /\ result' = Some(new)
    /\ pc' = "op_keep"
    /\ UNCHANGED <<file, new, declared, lastReg, queried, calls, refuse, retry>>

NextOps ==
    \/ OpsRootNode
    \/ \E p \in Declarable : OpsRegister(p)
    \/ \E rf \in SUBSET ManagedPaths(new), ord \in Orders : OpsDeactivate(rf, ord)
    \/ \E rf \in Refusable, ord \in Orders : OpsUpdateState(rf, ord)
    \/ OpsKeep

SpecOps == InitOps /\ [][NextOps]_vars

----------------------------------------------------------------------------
(* Vocabulary of the properties *)

\* every path a node of a tree over Declarable can have, and one more
Universe == Queryable

\* p is q or an ancestor of q
IsPrefix(p, q) == Len(p) <= Len(q) /\ SubSeq(q, 1, Len(p)) = p

\* the tree has a node at path, reached through the children maps
RECURSIVE HasNodeGo(_, _)
HasNodeGo(tree, components) ==
    IF components = <<>> THEN TRUE
    ELSE IF Head(components) = RootDir THEN HasNodeGo(tree, Tail(components))
    ELSE /\ Head(components) \in Keys(tree.nested)
         /\ HasNodeGo(tree.nested[Head(components)], Tail(components))

HasNode(tree, path) == HasNodeGo(tree, path)

\* the same for an Option<EtcTree>
PresentIn(opt, path) == IsSome(opt) /\ HasNode(Unwrap(opt), path)

\* the paths delete_action was invoked for in this run
CalledPaths == {calls[i].path : i \in DOMAIN calls}

\* p is declared in this run, or an ancestor of a declared path
StillNeeded(p) == \E d \in declared : IsPrefix(p, d)

\* p is, or has a descendant that is, a Managed node of tree whose removal
\* this run's delete_action refuses
HoldsRefused(tree, p) ==
    \E q \in Universe :
        /\ IsPrefix(p, q)
        /\ HasNode(tree, q)
        /\ is_managed(tree, q)
        /\ ~delete_action(refuse, q, Managed)

\* update_state has made its pass over the two generations
Reconciling == pc \in {"reconciled", "panicked"}

----------------------------------------------------------------------------
(* C1 *)

\* C1: update_state invokes delete_action only for paths that are Managed
\* nodes of the previous tree and are not nodes of the new tree.
C1_DeletesOnlyDroppedManaged ==
    Reconciling =>
        \A i \in DOMAIN calls :
            /\ HasNode(old, calls[i].path)
            /\ is_managed(old, calls[i].path)
            /\ ~HasNode(new, calls[i].path)

\* a reconciliation that deleted a dropped path while another Managed path
\* of the previous tree is still a node of the new tree
C1_Witness ==
    /\ pc = "reconciled"
    /\ calls # <<>>
    /\ \E p \in Universe : is_managed(old, p) /\ HasNode(new, p) /\ p # RootPath

(* C2 *)

\* C2: after update_state every path Managed in the previous tree is
\* Managed in the result, or delete_action was invoked for it and
\* returned true.
C2_NeverForgetsManaged ==
    pc = "reconciled" =>
        \A p \in Universe :
            is_managed(old, p) =>
                \/ is_managed(Unwrap(result), p)
                \/ p \in CalledPaths /\ delete_action(refuse, p, Managed)

\* one path kept Managed only through the previous tree, another deleted
C2_Witness ==
    /\ pc = "reconciled"
    /\ \E p \in Universe :
          is_managed(old, p) /\ ~is_managed(new, p) /\ HasNode(new, p)
              /\ is_managed(Unwrap(result), p)
    /\ \E p \in CalledPaths : delete_action(refuse, p, Managed)
    /\ \E p \in CalledPaths : ~delete_action(refuse, p, Managed)

(* C3 *)

\* C3: after register_managed_entry(T, p) the path p is Managed, also when
\* p was already in T as an Unmanaged intermediate node.
C3_RegisteredIsManaged ==
    (pc = "build" /\ IsSome(lastReg)) => is_managed(new, Unwrap(lastReg).path)

(* C4 *)

\* C4: in a tree built from root_node by registrations, get_status of a
\* path that was never registered returns Unmanaged, without a failed
\* assertion.
C4_UnregisteredIsUnmanaged ==
    IsSome(queried) =>
        (Unwrap(queried).path \notin declared =>
            /\ Unwrap(queried).status = Unmanaged
            /\ Unwrap(queried).ok)

\* a query of an intermediate directory of a registered path
C4_Witness ==
    /\ IsSome(queried)
    /\ Unwrap(queried).path \notin declared
    /\ Unwrap(queried).path # RootPath
    /\ StillNeeded(Unwrap(queried).path)
    /\ HasNode(new, Unwrap(queried).path)

(* C5 *)

\* C5: the nodes of the result of update_state are the nodes of the new
\* tree, and those nodes of the previous tree absent from the new one that
\* are, or have a descendant that is, a Managed node delete_action refuses.
C5_ResultNodes ==
    pc = "reconciled" =>
        \A p \in Universe :
            HasNode(Unwrap(result), p) <=>
                \/ HasNode(new, p)
                \/ HasNode(old, p) /\ ~HasNode(new, p) /\ HoldsRefused(old, p)

\* a result with a top-level key of the new tree, a dropped key that left
\* a survivor, and a dropped key that left none
C5_Witness ==
    /\ pc = "reconciled"
    /\ \E k \in Keys(Unwrap(result).nested) : k \in Keys(new.nested)
    /\ \E k \in Keys(Unwrap(result).nested) : k \notin Keys(new.nested)
    /\ \E p \in Universe :
          HasNode(old, p) /\ ~HasNode(new, p) /\ ~HasNode(Unwrap(result), p)

(* C6 *)

\* C6: deactivate keeps exactly the nodes that are, or have a descendant
\* that is, a Managed node delete_action refuses, each with its status;
\* the result is absent exactly when no node is kept.
C6_DeactivateKeeps ==
    pc = "deactivated" =>
        /\ \A p \in Universe :
              PresentIn(result, p) <=> (HasNode(old, p) /\ HoldsRefused(old, p))
        /\ \A p \in Universe :
              PresentIn(result, p) =>
                  get_status(Unwrap(result), p) = get_status(old, p)
        /\ IsSome(result) <=> \E p \in Universe : HasNode(old, p) /\ HoldsRefused(old, p)
        /\ refuse = {} => result = None

\* a deactivation that kept a refused node and removed a sibling
C6_Witness ==
    /\ pc = "deactivated"
    /\ IsSome(result)
    /\ \E p \in CalledPaths : delete_action(refuse, p, Managed)
    /\ \E p \in Universe : HasNode(old, p) /\ ~is_managed(old, p) /\ p # RootPath
                              /\ ~PresentIn(result, p)

(* C7 *)

OnDisk == Unwrap(from_file(file).tree)

\* a path refused by the run that wrote the state file is Managed in it
RefusedStaysManaged ==
    pc = "persisted" => \A p \in retry : is_managed(OnDisk, p)

\* and the next reconciliation asks again, unless the path is needed again
RefusedIsRetried ==
    Reconciling => \A p \in retry : ~StillNeeded(p) => p \in CalledPaths

\* a run that neither needs a path nor is refused anything below it writes
\* a state file without the path
RemovedOnceAllowed ==
    (pc = "reconciled" /\ pc' = "persisted") =>
        \A p \in Universe \ {RootPath} :
            (/\ ~StillNeeded(p)
             /\ \A q \in Universe : IsPrefix(p, q) => delete_action(refuse, q, Managed))
                => ~HasNode(OnDisk', p)

C9_FromFileNeverFails ==
    /\ pc # "load_failed"
    /\ pc = "build" =>
          old = IF file.kind = "document"
                THEN Deserialize(Unwrap(file.doc))
                ELSE root_node

(* C10 *)

\* C10: registering a path a second time leaves the tree as the first
\* registration made it, in keys and in statuses.
C10_RegisterIdempotent ==
    (pc = "build" /\ IsSome(lastReg)) =>
        register_managed_entry(new, Unwrap(lastReg).path) = new

\* the tree after a path was registered twice in a row, the first of the
\* two registrations having added nodes
C10_Witness ==
    /\ pc = "build"
    /\ IsSome(lastReg)
    /\ Unwrap(lastReg).before = new
    /\ is_managed(new, Unwrap(lastReg).path)
    /\ Len(Unwrap(lastReg).path) >= 3

(* C11 *)

\* a pass of deactivate or update_state has made its invocations
PassMade == pc \in {"reconciled", "panicked", "deactivated"}

\* C11: when delete_action is invoked for a path, it was invoked before,
\* and returned true, for every Managed descendant of the path in the
\* previous tree.
C11_DescendantsDeletedFirst ==
    PassMade =>
        \A i \in DOMAIN calls : \A q \in Universe :
            (/\ IsPrefix(calls[i].path, q)
             /\ q # calls[i].path
             /\ HasNode(old, q)
             /\ is_managed(old, q))
                => \E j \in DOMAIN calls :
                      /\ j < i
                      /\ calls[j].path = q
                      /\ delete_action(refuse, q, Managed)

\* a pass that deleted a Managed directory after the Managed entries below
\* it, and kept another directory whose entry could not be deleted
C11_Witness ==
    /\ PassMade
    /\ \E i, j \in DOMAIN calls :
          /\ j < i
          /\ IsPrefix(calls[i].path, calls[j].path)
          /\ calls[i].path # calls[j].path
    /\ \E p \in refuse : \E q \in Universe :
          IsPrefix(q, p) /\ q # p /\ is_managed(old, q) /\ q \notin CalledPaths

(* C12 *)

\* C12: the debug_assert of update_state holds at every level of the
\* recursion, the root included: no reconciliation is aborted by it and no
\* reconciliation returns an Unmanaged root without children.
C12_AssertionNeverFails ==
    /\ pc # "panicked"
    /\ pc = "reconciled" => NotDangling(Unwrap(result))

(* C13 *)

\* the node at the path has an empty children map
Childless(tree, p) ==
    ~ \E q \in NodePaths(tree) : IsPrefix(p, q) /\ q # p

\* the Unmanaged nodes of the tree that have no children
DanglingPaths(tree) ==
    {p \in NodePaths(tree) : p \notin ManagedPaths(tree) /\ Childless(tree, p)}

C14_StatusCarryOver ==
    pc = "reconciled" =>
        LET res == Unwrap(result)
        IN  /\ \A p \in (NodePaths(new) \cap NodePaths(old)) \ {RootPath} :
                  /\ p \in NodePaths(res)
                  /\ p \in ManagedPaths(res)
                        <=> (p \in ManagedPaths(new) \/ p \in ManagedPaths(old))
            /\ \A p \in (NodePaths(new) \ NodePaths(old)) \ {RootPath} :
                  /\ p \in NodePaths(res)
                  /\ p \in ManagedPaths(res) <=> p \in ManagedPaths(new)
            /\ ManagedPaths(new) \subseteq ManagedPaths(res)

\* a reconciliation with a shared path Managed only in the previous tree,
\* a shared path Managed only in the new tree, and a path the previous
\* tree does not have
C14_Witness ==
    /\ pc = "reconciled"
    /\ LET shared == (NodePaths(new) \cap NodePaths(old)) \ {RootPath}
       IN  /\ (shared \cap ManagedPaths(old)) \ ManagedPaths(new) # {}
           /\ (shared \cap ManagedPaths(new)) \ ManagedPaths(old) # {}
    /\ (NodePaths(new) \ NodePaths(old)) # {}

(* C15 *)

C16_OnlyRootDangles ==
    /\ DanglingPaths(new) \subseteq {RootPath}
    /\ DanglingPaths(old) \subseteq {RootPath}
    /\ IsSome(result) => DanglingPaths(Unwrap(result)) \subseteq {RootPath}

\* a reconciliation of trees that earlier operations produced, after which
\* the tree has an Unmanaged directory kept for a node below it and a
\* childless node that the tree obtained earlier does not have
C16_Witness ==
    /\ pc = "op_update_state"
    /\ IsSome(result)
    /\ (NodePaths(new) \ ManagedPaths(new)) \ {RootPath} # {}
    /\ \E p \in NodePaths(new) \ NodePaths(old) : Childless(new, p)
    /\ \E p \in NodePaths(new) \cap NodePaths(old) :
          p # RootPath /\ Childless(new, p) /\ ~Childless(old, p)

(* C17 *)

\* C17: registering p and then q in a tree yields the same tree as
\* registering q and then p, for the tree and the path of every
\* registration and every path q, a prefix or an extension of p included.
C17_RegisterOrderIrrelevant ==
    IsSome(lastReg) =>
        LET T == Unwrap(lastReg).before
            p == Unwrap(lastReg).path
        IN  \A q \in Declarable :
                register_managed_entry(new, q)
                    = register_managed_entry(register_managed_entry(T, q), p)

(* C18 *)

\* C18: reconciling the new tree against the result of its own
\* reconciliation, with the same delete_action, returns that result again;
\* and reconciling a tree against an equal previous tree invokes
\* delete_action for no path and returns the tree itself.
C18_FixedPoint ==
    pc = "reconciled" =>
        /\ \A ord \in Orders :
              update_state(new, Unwrap(result), refuse, ord).tree = result
        /\ old = new => calls = <<>> /\ result = Some(new)

\* a reconciliation that kept a path whose deletion was refused beside a
\* declared path, so that the second reconciliation asks for it again
C18_Witness ==
    /\ pc = "reconciled"
    /\ ManagedPaths(new) # {}
    /\ refuse \cap NodePaths(Unwrap(result)) # {}
    /\ \A ord \in Orders :
          update_state(new, Unwrap(result), refuse, ord).calls # <<>>

\* a reconciliation of a tree holding Managed paths against an equal tree
C18_UnchangedWitness ==
    /\ pc = "reconciled"
    /\ old = new
    /\ Cardinality(ManagedPaths(new)) >= 2

(* C19 *)

\* the paths of a sequence of invocations
PathsOf(cs) == {cs[i].path : i \in DOMAIN cs}

\* C19: with delete_action a fixed function of the path and status, every
\* order in which deactivate and update_state can visit the children yields
\* the tree the pass returned and the set of paths the pass invoked
\* delete_action on.
C19_SiblingOrderIrrelevant ==
    /\ Reconciling =>
          \A ord \in Orders :
              LET r == update_state(new, old, refuse, ord)
              IN  /\ PathsOf(r.calls) = CalledPaths
                  /\ pc = "reconciled" => r.tree = result
    /\ pc = "deactivated" =>
          \A ord \in Orders :
              LET r == deactivate(old, refuse, ord)
              IN  /\ PathsOf(r.calls) = CalledPaths
                  /\ r.tree = result

\* a reconciliation that the two orders go through differently: sibling
\* subtrees are dropped, one deleted and one refused, and the invocations
\* come in another sequence under another order
C19_Witness ==
    /\ pc = "reconciled"
    /\ refuse \cap CalledPaths # {}
    /\ CalledPaths \ refuse # {}
    /\ \E ord \in Orders : update_state(new, old, refuse, ord).calls # calls

(* C20 *)

\* the statuses the nodes of a tree have
StatusesIn(tree) ==
    {IF p \in ManagedPaths(tree) THEN Managed ELSE Unmanaged :
        p \in NodePaths(tree)}

\* C20: for the statuses of the nodes of the new and the previous tree,
\* merge is Unmanaged only when both statuses are Unmanaged, and it is
\* commutative, associative and idempotent.
C20_MergeIsJoin ==
    \A a \in StatusesIn(new), b \in StatusesIn(old) :
        \A c \in StatusesIn(new) \cup StatusesIn(old) :
            /\ Merge(a, b) \in EtcFileStatus
            /\ Merge(a, b) = Unmanaged <=> (a = Unmanaged /\ b = Unmanaged)
            /\ Merge(a, b) = Merge(b, a)
            /\ Merge(Merge(a, b), c) = Merge(a, Merge(b, c))
            /\ Merge(a, a) = a
            /\ Merge(b, b) = b

\* a reconciliation that merged Managed into Unmanaged, Unmanaged into
\* Managed, and equal statuses, at paths present in both trees
C20_Witness ==
    /\ pc = "reconciled"
    /\ LET shared == (NodePaths(new) \cap NodePaths(old)) \ {RootPath}
           res == ManagedPaths(Unwrap(result))
       IN  /\ StatusesIn(new) = EtcFileStatus
           /\ StatusesIn(old) = EtcFileStatus
           /\ \E p \in shared \cap res :
                  p \in ManagedPaths(old) \ ManagedPaths(new)
           /\ \E p \in shared \cap res :
                  p \in ManagedPaths(new) \ ManagedPaths(old)
           /\ \E p \in shared :
                  p \in ManagedPaths(new) <=> p \in ManagedPaths(old)

====
